---- MODULE Spec2Model ----
(***************************************************************************)
(* A model of extractHTML.py: the directory-name derivation, the Page      *)
(* Fetcher (extract_html_from_url), the Stylesheet Mirror                  *)
(* (extract_linked_styles) and the CLI driver (main).                      *)
(*                                                                         *)
(* Python strings are sequences of one-character strings, so that prefix   *)
(* tests, splitting, joining and character replacement are computed the    *)
(* way the code and the library functions it calls compute them.  None is  *)
(* the record [some |-> FALSE]; a present value v is Some(v).              *)
(***************************************************************************)
EXTENDS Integers, Sequences, FiniteSets, TLC

VARIABLES
    pc,                 \* position of the running program
    url,                \* main's url / the url parameter of the function called
    response,           \* the Fetcher's requests.Response (None when there is none)
    ret,                \* what extract_html_from_url returned (four values)
    soup,               \* the parsed document, mutated in place by the Mirror
    idx,                \* position of the Mirror's loop in stylesheet_links (1-based)
    downloaded_files,   \* the Mirror's list of saved filenames
    mirror_ret,         \* what extract_linked_styles returned
    sanitized,          \* outcome of the last sanitize_url_for_directory call
    fs,                 \* the filesystem: path -> content of every file
    dirs,               \* the filesystem: the directories that exist
    net,                \* history: every URL requested over the network, in order
    outcome,            \* history: what happened to each stylesheet link
    events,             \* history: the steps of main, in order
    writes              \* history: the path of every completed file write, in order

vars == <<pc, url, response, ret, soup, idx, downloaded_files, mirror_ret,
          sanitized, fs, dirs, net, outcome, events, writes>>

---------------------------------------------------------------------------
(* Bounds of the model.                                                    *)

\* longest argument of sanitize_url_for_directory in SpecSanitize
MaxUrlLen == 5
\* most elements of a fetched document in SpecMirror
MaxElems == 2

---------------------------------------------------------------------------
(* Python values and string operations.                                    *)

None == [some |-> FALSE]
Some(v) == [some |-> TRUE, val |-> v]

Min(S) == CHOOSE x \in S : \A y \in S : x <= y
Max(S) == CHOOSE x \in S : \A y \in S : x >= y

ascii_lowercase ==
    <<"a", "b", "c", "d", "e", "f", "g", "h", "i", "j", "k", "l", "m", "n", "o", "p", "q", "r", "s", "t", "u", "v", "w", "x", "y", "z">>
ascii_uppercase ==
    <<"A", "B", "C", "D", "E", "F", "G", "H", "I", "J", "K", "L", "M", "N", "O", "P", "Q", "R", "S", "T", "U", "V", "W", "X", "Y", "Z">>
digits ==
    <<"0", "1", "2", "3", "4", "5", "6", "7", "8", "9">>

Range(s) == {s[i] : i \in 1..Len(s)}

\* str.find(c, start), 1-based: the least index >= from holding c, 0 when none
Find(s, c, from) ==
    LET hits == {i \in from..Len(s) : s[i] = c}
    IN  IF hits = {} THEN 0 ELSE Min(hits)

\* str.rfind(c), 1-based: the greatest index holding c, 0 when none
RFind(s, c) ==
    LET hits == {i \in 1..Len(s) : s[i] = c}
    IN  IF hits = {} THEN 0 ELSE Max(hits)

startswith(s, prefix) ==
    /\ Len(s) >= Len(prefix)
    /\ SubSeq(s, 1, Len(prefix)) = prefix

endswith(s, suffix) ==
    /\ Len(s) >= Len(suffix)
    /\ SubSeq(s, Len(s) - Len(suffix) + 1, Len(s)) = suffix

lower(s) ==
    [i \in 1..Len(s) |->
        LET k == Find(ascii_uppercase, s[i], 1)
        IN  IF k = 0 THEN s[i] ELSE ascii_lowercase[k]]

\* str.strip(chars): drop the leading and trailing characters that are in chars
strip(s, chars) ==
    LET keep == {i \in 1..Len(s) : s[i] \notin chars}
    IN  IF keep = {} THEN <<>> ELSE SubSeq(s, Min(keep), Max(keep))

\* re.sub(r'[class]', repl, s) for a character class and a one-character repl
re_sub(class, repl, s) ==
    [i \in 1..Len(s) |-> IF s[i] \in class THEN repl ELSE s[i]]

RECURSIVE split(_, _)
split(s, sep) ==
    LET i == Find(s, sep, 1)
    IN  IF i = 0 THEN <<s>>
        ELSE <<SubSeq(s, 1, i - 1)>> \o split(SubSeq(s, i + 1, Len(s)), sep)

RECURSIVE join(_, _)
join(sep, parts) ==
    IF parts = <<>> THEN <<>>
    ELSE IF Len(parts) = 1 THEN parts[1]
    ELSE parts[1] \o <<sep>> \o join(sep, Tail(parts))

\* str(n) for a natural number
RECURSIVE str(_)
str(n) ==
    IF n < 10 THEN <<digits[n + 1]>>
    ELSE str(n \div 10) \o <<digits[(n % 10) + 1]>>

\* os.path.basename (POSIX): what follows the last slash
basename(p) == SubSeq(p, RFind(p, "/") + 1, Len(p))

\* os.path.join (POSIX) of two components
path_join(a, b) ==
    IF startswith(b, <<"/">>) THEN b
    ELSE IF a = <<>> \/ endswith(a, <<"/">>) THEN a \o b
    ELSE a \o <<"/">> \o b

---------------------------------------------------------------------------
(* urllib.parse, as far as the program uses it.                            *)

scheme_chars == Range(ascii_lowercase) \cup Range(ascii_uppercase) \cup Range(digits) \cup {"+", "-", "."}

uses_relative ==
    { <<>>,
      <<"f", "t", "p">>,
      <<"h", "t", "t", "p">>,
      <<"g", "o", "p", "h", "e", "r">>,
      <<"n", "n", "t", "p">>,
      <<"i", "m", "a", "p">>,
      <<"w", "a", "i", "s">>,
      <<"f", "i", "l", "e">>,
      <<"h", "t", "t", "p", "s">>,
      <<"s", "h", "t", "t", "p">>,
      <<"m", "m", "s">>,
      <<"p", "r", "o", "s", "p", "e", "r", "o">>,
      <<"r", "t", "s", "p">>,
      <<"r", "t", "s", "p", "s">>,
      <<"r", "t", "s", "p", "u">>,
      <<"s", "f", "t", "p">>,
      <<"s", "v", "n">>,
      <<"s", "v", "n", "+", "s", "s", "h">>,
      <<"w", "s">>,
      <<"w", "s", "s">> }
uses_netloc ==
    { <<>>,
      <<"f", "t", "p">>,
      <<"h", "t", "t", "p">>,
      <<"g", "o", "p", "h", "e", "r">>,
      <<"n", "n", "t", "p">>,
      <<"t", "e", "l", "n", "e", "t">>,
      <<"i", "m", "a", "p">>,
      <<"w", "a", "i", "s">>,
      <<"f", "i", "l", "e">>,
      <<"m", "m", "s">>,
      <<"h", "t", "t", "p", "s">>,
      <<"s", "h", "t", "t", "p">>,
      <<"s", "n", "e", "w", "s">>,
      <<"p", "r", "o", "s", "p", "e", "r", "o">>,
      <<"r", "t", "s", "p">>,
      <<"r", "t", "s", "p", "s">>,
      <<"r", "t", "s", "p", "u">>,
      <<"r", "s", "y", "n", "c">>,
      <<"s", "v", "n">>,
      <<"s", "v", "n", "+", "s", "s", "h">>,
      <<"s", "f", "t", "p">>,
      <<"n", "f", "s">>,
      <<"g", "i", "t">>,
      <<"g", "i", "t", "+", "s", "s", "h">>,
      <<"w", "s">>,
      <<"w", "s", "s">> }
uses_params ==
    { <<>>,
      <<"f", "t", "p">>,
      <<"h", "d", "l">>,
      <<"p", "r", "o", "s", "p", "e", "r", "o">>,
      <<"h", "t", "t", "p">>,
      <<"i", "m", "a", "p">>,
      <<"h", "t", "t", "p", "s">>,
      <<"s", "h", "t", "t", "p">>,
      <<"r", "t", "s", "p">>,
      <<"r", "t", "s", "p", "s">>,
      <<"r", "t", "s", "p", "u">>,
      <<"s", "i", "p">>,
      <<"s", "i", "p", "s">>,
      <<"m", "m", "s">>,
      <<"s", "f", "t", "p">>,
      <<"t", "e", "l">> }

\* the part of s before the first c (all of s when there is none), and after it
before(s, c) ==
    LET k == Find(s, c, 1)
    IN  IF k = 0 THEN s ELSE SubSeq(s, 1, k - 1)

after(s, c) ==
    LET k == Find(s, c, 1)
    IN  IF k = 0 THEN <<>> ELSE SubSeq(s, k + 1, Len(s))

\* _splitnetloc(u1, 2): where the network location of "//..." ends
netloc_end(u1) ==
    LET stops == {k \in 3..Len(u1) : u1[k] \in {"/", "?", "#"}}
    IN  IF stops = {} THEN Len(u1) + 1 ELSE Min(stops)

\* urlsplit, last step: the result; raised is TRUE where the library raises
\* ValueError (a bracket without its partner in the network location)
SplitResult(scheme, netloc, u3, fragment) ==
    [raised |-> ("[" \in Range(netloc)) # ("]" \in Range(netloc)),
     scheme |-> scheme, netloc |-> netloc, path |-> before(u3, "?"),
     query |-> after(u3, "?"), fragment |-> fragment]

\* urlsplit, after the scheme: the network location, then the fragment
split_netloc(scheme, u1) ==
    IF startswith(u1, <<"/", "/">>)
    THEN SplitResult(scheme, SubSeq(u1, 3, netloc_end(u1) - 1),
                     before(SubSeq(u1, netloc_end(u1), Len(u1)), "#"),
                     after(SubSeq(u1, netloc_end(u1), Len(u1)), "#"))
    ELSE SplitResult(scheme, <<>>, before(u1, "#"), after(u1, "#"))

\* urlsplit, first step: whether what precedes the first ':' (at i) is a scheme
has_scheme(u, i) ==
    /\ i > 1
    /\ u[1] \in Range(ascii_lowercase) \cup Range(ascii_uppercase)
    /\ \A k \in 1..(i - 1) : u[k] \in scheme_chars

\* urlsplit(u, scheme)
urlsplit(u, scheme) ==
    IF has_scheme(u, Find(u, ":", 1))
    THEN split_netloc(lower(before(u, ":")), after(u, ":"))
    ELSE split_netloc(scheme, u)

\* _splitparams(path): the position of the ';' that starts the parameters of
\* the last segment, 0 when there is none
splitparams_at(path) == Find(path, ";", Max({1, RFind(path, "/")}))

\* urlparse, given urlsplit's result r
ParseResult(r) ==
    LET i == IF r.scheme \in uses_params THEN splitparams_at(r.path) ELSE 0
    IN  [raised |-> r.raised, scheme |-> r.scheme, netloc |-> r.netloc,
         path |-> IF i = 0 THEN r.path ELSE SubSeq(r.path, 1, i - 1),
         params |-> IF i = 0 THEN <<>> ELSE SubSeq(r.path, i + 1, Len(r.path)),
         query |-> r.query, fragment |-> r.fragment]

\* urlparse(u, scheme): urlsplit plus the parameters of the last path segment
urlparse(u, scheme) == ParseResult(urlsplit(u, scheme))

\* urlunsplit: the network location in front of the path
with_netloc(scheme, netloc, p) ==
    IF netloc # <<>> \/ (scheme # <<>> /\ scheme \in uses_netloc
                         /\ ~startswith(p, <<"/", "/">>))
    THEN <<"/", "/">> \o netloc
         \o (IF p # <<>> /\ p[1] # "/" THEN <<"/">> ELSE <<>>) \o p
    ELSE p

\* urlunparse of six components
urlunparse(scheme, netloc, path, params, query, fragment) ==
    (IF scheme # <<>> THEN scheme \o <<":">> ELSE <<>>)
    \o with_netloc(scheme, netloc,
                   IF params # <<>> THEN path \o <<";">> \o params ELSE path)
    \o (IF query # <<>> THEN <<"?">> \o query ELSE <<>>)
    \o (IF fragment # <<>> THEN <<"#">> \o fragment ELSE <<>>)

\* the loop of urljoin that removes dot segments
RECURSIVE resolve_segments(_, _)
resolve_segments(segments, resolved_path) ==
    IF segments = <<>> THEN resolved_path
    ELSE IF Head(segments) = <<".", ".">>
    THEN resolve_segments(Tail(segments),
            IF resolved_path = <<>> THEN <<>>
            ELSE SubSeq(resolved_path, 1, Len(resolved_path) - 1))
    ELSE IF Head(segments) = <<".">>
    THEN resolve_segments(Tail(segments), resolved_path)
    ELSE resolve_segments(Tail(segments), Append(resolved_path, Head(segments)))

\* segments[1:-1] = filter(None, segments[1:-1])
filter_inner(segments) ==
    IF Len(segments) <= 2 THEN segments
    ELSE <<segments[1]>>
         \o SelectSeq(SubSeq(segments, 2, Len(segments) - 1), LAMBDA s : s # <<>>)
         \o <<segments[Len(segments)]>>

\* base_parts: the segments of the base path without its last, non-directory one
base_parts(parts) ==
    IF parts[Len(parts)] # <<>> THEN SubSeq(parts, 1, Len(parts) - 1) ELSE parts

\* the segments urljoin resolves
join_segments(bpath, path) ==
    IF startswith(path, <<"/">>) THEN split(path, "/")
    ELSE filter_inner(base_parts(split(bpath, "/")) \o split(path, "/"))

\* the resolved path, given the segments
resolved_path_of(segments) ==
    join("/", IF segments[Len(segments)] \in {<<".">>, <<".", ".">>}
              THEN Append(resolve_segments(segments, <<>>), <<>>)
              ELSE resolve_segments(segments, <<>>))

or_root(p) == IF p = <<>> THEN <<"/">> ELSE p

\* urljoin, given the parsed base b and the parsed reference r
join_parsed(b, r, u) ==
    IF b.raised \/ r.raised THEN None
    ELSE IF r.scheme # b.scheme \/ r.scheme \notin uses_relative THEN Some(u)
    ELSE IF r.scheme \in uses_netloc /\ r.netloc # <<>>
    THEN Some(urlunparse(r.scheme, r.netloc, r.path, r.params, r.query, r.fragment))
    ELSE IF r.path = <<>> /\ r.params = <<>>
    THEN Some(urlunparse(r.scheme,
                         IF r.scheme \in uses_netloc THEN b.netloc ELSE r.netloc,
                         b.path, b.params,
                         IF r.query = <<>> THEN b.query ELSE r.query, r.fragment))
    ELSE Some(urlunparse(r.scheme,
                         IF r.scheme \in uses_netloc THEN b.netloc ELSE r.netloc,
                         or_root(resolved_path_of(join_segments(b.path, r.path))),
                         r.params, r.query, r.fragment))

\* urljoin, given the parsed base b: the reference is parsed with b's scheme
\* as its default
join_to(b, u) == join_parsed(b, urlparse(u, b.scheme), u)

\* urljoin(base, u): Some(joined) or, where the library raises ValueError, None
urljoin(base, u) ==
    IF base = <<>> THEN Some(u)
    ELSE IF u = <<>> THEN Some(base)
    ELSE join_to(urlparse(base, <<>>), u)

---------------------------------------------------------------------------
(* sanitize_url_for_directory.                                             *)

\* a call's outcome: an exception, or a returned value
Raised == [raised |-> TRUE]
Returned(v) == [raised |-> FALSE, val |-> v]

\* the character class of the first re.sub
invalid_chars == {"<", ">", ":", "\"", "|", "?", "*"}
\* a second character class that forgets the backslash
path_separators_slash_only == {"/"}

\* the character class of the second re.sub
path_separators == {"/", "\\"}

extracted_page ==
    <<"e", "x", "t", "r", "a", "c", "t", "e", "d", "_", "p", "a", "g", "e">>

\* the name, given the parsed URL
dir_name_of(parsed) ==
    re_sub(path_separators, "_",
        re_sub(invalid_chars, "_",
            strip(IF parsed.netloc # <<>> THEN parsed.netloc \o parsed.path
                  ELSE parsed.path, {"/"})))

or_default(name) == IF name = <<>> THEN extracted_page ELSE name

sanitized_of(parsed) ==
    IF parsed.raised THEN Raised ELSE Returned(or_default(dir_name_of(parsed)))

sanitize_url_for_directory(u) == sanitized_of(urlparse(u, <<>>))

\* the arguments SpecSanitize calls the function with: the characters that the
\* parser and the two substitutions treat differently, in every arrangement
UrlAlphabet == {"a", "/", "\\", ":", "?", "<", "[", ";"}
UrlStrings == UNION {[1..n -> UrlAlphabet] : n \in 0..MaxUrlLen}

---------------------------------------------------------------------------
(* The environment: typed input, the network, the filesystem.              *)

http_prefix == <<"h", "t", "t", "p", ":", "/", "/">>
https_prefix == <<"h", "t", "t", "p", "s", ":", "/", "/">>
index_html == <<"i", "n", "d", "e", "x", ".", "h", "t", "m", "l">>
dot_css == <<".", "c", "s", "s">>
style_prefix == <<"s", "t", "y", "l", "e", "_">>
whitespace == {" ", "\t", "\n", "\r"}

\* Python truthiness of an optional string
Truthy(x) == x.some /\ x.val # <<>>

\* An element of a document.  Only what the Mirror reads is kept: the tag, the
\* rel attribute and the href attribute (None when the element has none).
Element(tag, rel, href) == [tag |-> tag, rel |-> rel, href |-> href]

\* hrefs of the stylesheet links of the documents: absent, relative with a
\* .css name, root-relative with the same name, a directory (no name), a
\* name of the synthesized form, and one that urljoin rejects
Hrefs ==
    { None,
      Some(<<"a", ".", "c", "s", "s">>),
      Some(<<"/", "c", "/", "a", ".", "c", "s", "s">>),
      Some(<<"c", "/">>),
      Some(<<"s", "t", "y", "l", "e", "_", "2", ".", "c", "s", "s">>),
      Some(<<"/", "/", "[">>) }

Elements ==
    {Element("link", "stylesheet", h) : h \in Hrefs}
    \cup {Element("link", "icon", Some(<<"a", ".", "c", "s", "s">>))}

\* the documents of SpecMirror, and the pages a server returns in Spec
Documents == UNION {[1..n -> Elements] : n \in 0..MaxElems}
Pages == UNION {[1..n -> Elements] : n \in 0..1}

\* the stylesheet bodies a server returns
CssBodies == {<<"b", "o", "d", "y", "{", "}">>, <<"p", "{", "}">>}

\* what the user may type at the first prompt
UrlInputs ==
    { <<>>,
      <<" ">>,
      <<"h", "/", "p">>,
      <<" ", "h", "/", "p", " ">>,
      <<"h", "t", "t", "p", ":", "/", "/", "h", "/", "d", "/">>,
      <<"[">> }

\* what the user may type at the second prompt
Answers ==
    { <<"y">>, <<"Y">>, <<"y", "e", "s">>, <<" ", "Y", "E", "S", " ">>,
      <<"n">>, <<"y", "e", "a", "h">>, <<>> }

\* requests.get can only answer for a URL it accepts: http or https, with a
\* host; for every other URL it raises a RequestException
Requestable(u) ==
    LET p == urlparse(u, <<>>)
    IN  /\ ~p.raised
        /\ p.scheme \in {<<"h", "t", "t", "p">>, <<"h", "t", "t", "p", "s">>}
        /\ p.netloc # <<>>

\* response.url: the requested URL, or where the server's redirect led
FinalUrls(u) == {u, u \o <<"/">>}

Response(ok, text, final) == [ok |-> ok, text |-> text, url |-> final]

\* the file as open(path, 'w') and f.write(content) leave it
written(files, path, content) ==
    [p \in DOMAIN files \cup {path} |-> IF p = path THEN content ELSE files[p]]

\* the file as open(path, 'w') leaves it when f.write raises: truncated
truncated(files, path) == written(files, path, <<>>)

---------------------------------------------------------------------------
(* extract_html_from_url.                                                  *)

NoResult ==
    [html_file_path |-> None, html_content |-> None,
     base_url |-> None, dir_name |-> None]

Result(html_file_path, html_content, base_url, dir_name) ==
    [html_file_path |-> Some(html_file_path), html_content |-> Some(html_content),
     base_url |-> Some(base_url), dir_name |-> Some(dir_name)]

\* not returned yet
Pending == [pending |-> TRUE]

\* the scheme prefix added to a URL that has none
normalize(u) ==
    IF startswith(u, http_prefix) \/ startswith(u, https_prefix) THEN u
    ELSE https_prefix \o u

\* requests.get raises (DNS, connection, timeout, URL it does not accept)
FetchRequestError ==
    /\ response' = None
    /\ ret' = NoResult
    /\ pc' = "main_branch"

\* a response arrives with a non-success status: raise_for_status raises
FetchStatusError ==
    /\ Requestable(normalize(url))
    /\ response' = Some(Response(FALSE, <<>>, normalize(url)))
    /\ ret' = NoResult
    /\ pc' = "main_branch"

\* a response arrives with a success status
FetchResponse ==
    /\ Requestable(normalize(url))
    /\ \E text \in Pages, final \in FinalUrls(normalize(url)) :
          response' = Some(Response(TRUE, text, final))
    /\ ret' = ret
    /\ pc' = "fetch_save"

\* the request of extract_html_from_url
FetchGet ==
    /\ pc = "fetch_get"
    /\ url' = normalize(url)
    /\ net' = Append(net, normalize(url))
    /\ events' = Append(events, [op |-> "fetch", arg |-> url])
    /\ (FetchRequestError \/ FetchStatusError \/ FetchResponse)
    /\ UNCHANGED <<soup, idx, downloaded_files, mirror_ret, sanitized, fs, dirs,
                   outcome, writes>>

\* the value returned on success
fetch_result(html_file_path, resp, u, dir_name) ==
    Result(html_file_path, resp.text, u, dir_name)

\* os.makedirs raises
FetchMakedirsError(dir_name) ==
    /\ dir_name \notin dirs
    /\ UNCHANGED <<dirs, fs, writes>>
    /\ ret' = NoResult

\* open raises
FetchOpenError(dir_name) ==
    /\ dirs' = dirs \cup {dir_name}
    /\ UNCHANGED <<fs, writes>>
    /\ ret' = NoResult

\* a write failure that is swallowed: the result is returned all the same
FetchWriteError_Returns(dir_name) ==
    /\ dirs' = dirs \cup {dir_name}
    /\ fs' = truncated(fs, path_join(dir_name, index_html))
    /\ UNCHANGED writes
    /\ ret' = fetch_result(path_join(dir_name, index_html), response.val, url,
                           dir_name)

\* f.write raises
FetchWriteError(dir_name) ==
    /\ dirs' = dirs \cup {dir_name}
    /\ fs' = truncated(fs, path_join(dir_name, index_html))
    /\ UNCHANGED writes
    /\ ret' = NoResult

\* the directory exists or is created, and the body is written
FetchSaved(dir_name) ==
    /\ dirs' = dirs \cup {dir_name}
    /\ fs' = written(fs, path_join(dir_name, index_html), response.val.text)
    /\ writes' = Append(writes, path_join(dir_name, index_html))
    /\ ret' = fetch_result(path_join(dir_name, index_html), response.val, url,
                           dir_name)

\* the rest of extract_html_from_url after a successful response
FetchSave ==
    /\ pc = "fetch_save"
    /\ sanitized' = sanitize_url_for_directory(url)
    /\ IF sanitize_url_for_directory(url).raised
       THEN /\ ret' = NoResult
            /\ UNCHANGED <<dirs, fs, writes>>
       ELSE LET dir_name == sanitize_url_for_directory(url).val
            IN  \/ FetchMakedirsError(dir_name)
                \/ FetchOpenError(dir_name)
                \/ FetchWriteError(dir_name)
                \/ FetchSaved(dir_name)
    /\ pc' = "main_branch"
    /\ UNCHANGED <<url, response, soup, idx, downloaded_files, mirror_ret, net,
                   outcome, events>>

---------------------------------------------------------------------------
(* extract_linked_styles.                                                  *)

\* soup.find_all(tag, rel=rel): the positions of the matching elements, in
\* document order
RECURSIVE find_from(_, _, _, _)
find_from(doc, tag, rel, i) ==
    IF i > Len(doc) THEN <<>>
    ELSE (IF doc[i].tag = tag /\ doc[i].rel = rel THEN <<i>> ELSE <<>>)
         \o find_from(doc, tag, rel, i + 1)

\* a search that matches the tag alone
find_all_any_rel(doc, tag, rel) ==
    SelectSeq([i \in 1..Len(doc) |-> i], LAMBDA i : doc[i].tag = tag)

find_all(doc, tag, rel) == find_from(doc, tag, rel, 1)

\* the list the loop runs over (tags and rel attributes never change)
stylesheet_links == find_all(soup, "link", "stylesheet")

\* the element the loop is at, and its href
link == soup[stylesheet_links[idx]]

\* the parameters of the call
html_content == ret.html_content.val
base_url == ret.base_url.val
dir_name == ret.dir_name.val

\* a synthesized name that counts the links from 0
css_filename_zero_based(css_url, i) ==
    LET name == basename(urlparse(css_url, <<>>).path)
    IN  IF name = <<>> \/ ~endswith(name, dot_css)
        THEN style_prefix \o str(i - 1) \o dot_css
        ELSE name

\* the local filename of the stylesheet at css_url, the i-th link
css_filename_for(css_url, i) ==
    LET name == basename(urlparse(css_url, <<>>).path)
    IN  IF name = <<>> \/ ~endswith(name, dot_css)
        THEN style_prefix \o str(i) \o dot_css
        ELSE name

\* link['href'] = css_filename
set_href(doc, pos, css_filename) ==
    [doc EXCEPT ![pos] = Element(doc[pos].tag, doc[pos].rel, Some(css_filename))]

Outcome(kind, css_url, css_filename, text) ==
    [kind |-> kind, css_url |-> css_url, css_filename |-> css_filename,
     text |-> text]

\* what the loop does after an iteration that did not abort the pass
Continue == /\ idx' = idx + 1
            /\ pc' = "mirror_loop"
            /\ mirror_ret' = mirror_ret

\* parse, find the links; return True at once when there are none
MirrorParse ==
    /\ pc = "mirror_parse"
    /\ events' = Append(events, [op |-> "mirror", arg |-> base_url])
    /\ soup' = html_content
    /\ IF find_all(html_content, "link", "stylesheet") = <<>>
       THEN /\ mirror_ret' = Some(TRUE)
            /\ pc' = "exit"
       ELSE /\ mirror_ret' = mirror_ret
            /\ pc' = "mirror_loop"
    /\ idx' = 1
    /\ downloaded_files' = <<>>
    /\ UNCHANGED <<url, response, ret, sanitized, fs, dirs, net, outcome, writes>>

\* the link has no href, or an empty one: continue
MirrorNoHref ==
    /\ ~Truthy(link.href)
    /\ outcome' = Append(outcome, Outcome("no_href", <<>>, <<>>, <<>>))
    /\ Continue
    /\ UNCHANGED <<soup, downloaded_files, fs, net, writes>>

\* urljoin raises ValueError, outside the inner try: the pass ends, False
MirrorResolveError ==
    /\ Truthy(link.href)
    /\ ~urljoin(base_url, link.href.val).some
    /\ outcome' = Append(outcome, Outcome("resolve_error", <<>>, <<>>, <<>>))
    /\ mirror_ret' = Some(FALSE)
    /\ pc' = "exit"
    /\ UNCHANGED <<soup, idx, downloaded_files, fs, net, writes>>

\* a request error that ends the pass instead of the iteration
MirrorRequestError_Aborts(css_url) ==
    /\ outcome' = Append(outcome, Outcome("request_error", css_url, <<>>, <<>>))
    /\ mirror_ret' = Some(FALSE)
    /\ pc' = "exit"
    /\ UNCHANGED <<soup, idx, downloaded_files, fs, writes>>

\* requests.get raises: continue
MirrorRequestError(css_url) ==
    /\ outcome' = Append(outcome, Outcome("request_error", css_url, <<>>, <<>>))
    /\ Continue
    /\ UNCHANGED <<soup, downloaded_files, fs, writes>>

\* a non-success status, raise_for_status raises: continue
MirrorStatusError(css_url) ==
    /\ Requestable(css_url)
    /\ outcome' = Append(outcome, Outcome("status_error", css_url, <<>>, <<>>))
    /\ Continue
    /\ UNCHANGED <<soup, downloaded_files, fs, writes>>

\* open raises: continue
MirrorOpenError(css_url) ==
    /\ outcome' = Append(outcome,
          Outcome("open_error", css_url, css_filename_for(css_url, idx), <<>>))
    /\ Continue
    /\ UNCHANGED <<soup, downloaded_files, fs, writes>>

\* the href rewritten before the file is written
MirrorWriteError_HrefFirst(css_url) ==
    /\ fs' = truncated(fs, path_join(dir_name, css_filename_for(css_url, idx)))
    /\ soup' = set_href(soup, stylesheet_links[idx], css_filename_for(css_url, idx))
    /\ outcome' = Append(outcome,
          Outcome("write_error", css_url, css_filename_for(css_url, idx), <<>>))
    /\ Continue
    /\ UNCHANGED <<downloaded_files, writes>>

\* f.write raises: continue
MirrorWriteError(css_url) ==
    /\ fs' = truncated(fs, path_join(dir_name, css_filename_for(css_url, idx)))
    /\ outcome' = Append(outcome,
          Outcome("write_error", css_url, css_filename_for(css_url, idx), <<>>))
    /\ Continue
    /\ UNCHANGED <<soup, downloaded_files, writes>>

\* a save that keeps a file that already exists
MirrorSaved_KeepsExisting(css_url, text) ==
    LET css_filename == css_filename_for(css_url, idx)
    IN  /\ fs' = IF path_join(dir_name, css_filename) \in DOMAIN fs THEN fs
                 ELSE written(fs, path_join(dir_name, css_filename), text)
        /\ writes' = Append(writes, path_join(dir_name, css_filename))
        /\ soup' = set_href(soup, stylesheet_links[idx], css_filename)
        /\ downloaded_files' = Append(downloaded_files, css_filename)
        /\ outcome' = Append(outcome, Outcome("saved", css_url, css_filename, text))
        /\ Continue

\* the stylesheet is saved and the link rewritten
MirrorSaved(css_url, text) ==
    LET css_filename == css_filename_for(css_url, idx)
    IN  /\ fs' = written(fs, path_join(dir_name, css_filename), text)
        /\ writes' = Append(writes, path_join(dir_name, css_filename))
        /\ soup' = set_href(soup, stylesheet_links[idx], css_filename)
        /\ downloaded_files' = Append(downloaded_files, css_filename)
        /\ outcome' = Append(outcome, Outcome("saved", css_url, css_filename, text))
        /\ Continue

\* a response arrives with a success status; then the file is written, or not
MirrorResponse(css_url) ==
    /\ Requestable(css_url)
    /\ \/ MirrorOpenError(css_url)
       \/ MirrorWriteError(css_url)
       \/ \E text \in CssBodies : MirrorSaved(css_url, text)

\* the link has an href that resolves: one request, and what follows it
MirrorDownload ==
    /\ Truthy(link.href)
    /\ urljoin(base_url, link.href.val).some
    /\ LET css_url == urljoin(base_url, link.href.val).val
       IN  /\ net' = Append(net, css_url)
           /\ \/ MirrorRequestError(css_url)
              \/ MirrorStatusError(css_url)
              \/ MirrorResponse(css_url)

\* one iteration of the loop over stylesheet_links
MirrorLink ==
    /\ pc = "mirror_loop"
    /\ idx <= Len(stylesheet_links)
    /\ (MirrorNoHref \/ MirrorResolveError \/ MirrorDownload)
    /\ UNCHANGED <<url, response, ret, sanitized, dirs, events>>

\* str(soup)
serialize(doc) == doc

\* a rewrite that is skipped when nothing was downloaded
MirrorRewritten_IfDownloaded ==
    /\ IF downloaded_files # <<>>
       THEN /\ fs' = written(fs, path_join(dir_name, index_html), serialize(soup))
            /\ writes' = Append(writes, path_join(dir_name, index_html))
       ELSE UNCHANGED <<fs, writes>>
    /\ mirror_ret' = Some(TRUE)

\* after the loop: index.html is opened and the document written
MirrorRewritten ==
    /\ fs' = written(fs, path_join(dir_name, index_html), serialize(soup))
    /\ writes' = Append(writes, path_join(dir_name, index_html))
    /\ mirror_ret' = Some(TRUE)

\* after the loop: open raises, the outer handler returns False
MirrorRewriteOpenError ==
    /\ UNCHANGED <<fs, writes>>
    /\ mirror_ret' = Some(FALSE)

\* after the loop: f.write raises, the outer handler returns False
MirrorRewriteWriteError ==
    /\ fs' = truncated(fs, path_join(dir_name, index_html))
    /\ UNCHANGED writes
    /\ mirror_ret' = Some(FALSE)

MirrorRewrite ==
    /\ pc = "mirror_loop"
    /\ idx > Len(stylesheet_links)
    /\ (MirrorRewritten \/ MirrorRewriteOpenError \/ MirrorRewriteWriteError)
    /\ pc' = "exit"
    /\ UNCHANGED <<url, response, ret, soup, idx, downloaded_files, sanitized,
                   dirs, net, outcome, events>>

---------------------------------------------------------------------------
(* main.                                                                   *)

\* the first prompt: an empty URL ends the program
MainInput ==
    /\ pc = "main_input"
    /\ \E typed \in UrlInputs :
          /\ events' = Append(events, [op |-> "prompt_url", arg |-> typed])
          /\ url' = strip(typed, whitespace)
          /\ pc' = IF strip(typed, whitespace) = <<>> THEN "exit" ELSE "fetch_get"
    /\ UNCHANGED <<response, ret, soup, idx, downloaded_files, mirror_ret,
                   sanitized, fs, dirs, net, outcome, writes>>

\* answers accepted by their first letter
affirmative_by_prefix == {<<"y">>, <<"y", "e", "s">>, <<"y", "e", "a", "h">>}

\* the answers that start the Mirror
affirmative == {<<"y">>, <<"y", "e", "s">>}

\* after the Fetcher returned: the second prompt, or the failure message
MainBranch ==
    /\ pc = "main_branch"
    /\ IF Truthy(ret.html_file_path)
       THEN \E typed \in Answers :
               /\ events' = Append(events, [op |-> "prompt_styles", arg |-> typed])
               /\ pc' = IF lower(strip(typed, whitespace)) \in affirmative
                        THEN "mirror_parse" ELSE "exit"
       ELSE /\ events' = events
            /\ pc' = "exit"
    /\ UNCHANGED <<url, response, ret, soup, idx, downloaded_files, mirror_ret,
                   sanitized, fs, dirs, net, outcome, writes>>

---------------------------------------------------------------------------
(* Specifications.                                                         *)

NoFiles == [p \in {} |-> <<>>]

\* the program, started from the command line
Init ==
    /\ pc = "main_input"
    /\ url = <<>>
    /\ response = None
    /\ ret = Pending
    /\ soup = <<>>
    /\ idx = 1
    /\ downloaded_files = <<>>
    /\ mirror_ret = None
    /\ sanitized = None
    /\ fs = NoFiles
    /\ dirs \in {{}, {<<"h", "_", "p">>}}
    /\ net = <<>>
    /\ outcome = <<>>
    /\ events = <<>>
    /\ writes = <<>>

Next == MainInput \/ FetchGet \/ FetchSave \/ MainBranch
        \/ MirrorParse \/ MirrorLink \/ MirrorRewrite

Spec == Init /\ [][Next]_vars

\* extract_linked_styles, called with what a successful fetch returned
MirrorUrl == <<"h", "t", "t", "p", "s", ":", "/", "/", "h", "/", "p">>

InitMirror ==
    /\ pc = "mirror_parse"
    /\ url = MirrorUrl
    /\ \E html \in Documents :
          /\ response = Some(Response(TRUE, html, MirrorUrl))
          /\ ret = fetch_result(
                      path_join(sanitize_url_for_directory(MirrorUrl).val, index_html),
                      Response(TRUE, html, MirrorUrl), MirrorUrl,
                      sanitize_url_for_directory(MirrorUrl).val)
          /\ fs = written(NoFiles,
                      path_join(sanitize_url_for_directory(MirrorUrl).val, index_html),
                      html)
    /\ soup = <<>>
    /\ idx = 1
    /\ downloaded_files = <<>>
    /\ mirror_ret = None
    /\ sanitized = sanitize_url_for_directory(MirrorUrl)
    /\ dirs = {sanitize_url_for_directory(MirrorUrl).val}
    /\ net = <<MirrorUrl>>
    /\ outcome = <<>>
    /\ events = <<>>
    /\ writes = <<path_join(sanitize_url_for_directory(MirrorUrl).val, index_html)>>

NextMirror == MirrorParse \/ MirrorLink \/ MirrorRewrite

SpecMirror == InitMirror /\ [][NextMirror]_vars

\* sanitize_url_for_directory, called with every string of the bound
InitSanitize ==
    /\ pc = "sanitize_call"
    /\ url \in UrlStrings
    /\ response = None
    /\ ret = Pending
    /\ soup = <<>>
    /\ idx = 1
    /\ downloaded_files = <<>>
    /\ mirror_ret = None
    /\ sanitized = None
    /\ fs = NoFiles
    /\ dirs = {}
    /\ net = <<>>
    /\ outcome = <<>>
    /\ events = <<>>
    /\ writes = <<>>

SanitizeCall ==
    /\ pc = "sanitize_call"
    /\ sanitized' = sanitize_url_for_directory(url)
    /\ pc' = "sanitize_done"
    /\ UNCHANGED <<url, response, ret, soup, idx, downloaded_files, mirror_ret,
                   fs, dirs, net, outcome, events, writes>>

NextSanitize == SanitizeCall

SpecSanitize == InitSanitize /\ [][NextSanitize]_vars

---------------------------------------------------------------------------
(* Properties of sanitize_url_for_directory (under SpecSanitize).          *)

\* host + path of the argument, as urlparse gives them
host_and_path == urlparse(url, <<>>).netloc \o urlparse(url, <<>>).path

\* a directory name as C5 describes it: not empty, none of < > : " | ? *,
\* no path separator
SafeName(name) ==
    /\ name # <<>>
    /\ Range(name) \cap {"<", ">", ":", "\"", "|", "?", "*", "/", "\\"} = {}

\* C5 as stated: for every URL string the function returns a non-empty name
\* with none of the characters < > : " | ? * and no path separator, and it
\* returns "extracted_page" whenever host + path is empty once the leading and
\* trailing slashes are trimmed.
C5_Original ==
    pc = "sanitize_done" =>
        /\ ~sanitized.raised
        /\ SafeName(sanitized.val)
        /\ (strip(host_and_path, {"/"}) = <<>> => sanitized.val = extracted_page)

\* C5 as amended: the same for every URL string that urlparse accepts; for a
\* string whose network location holds a bracket without its partner the
\* function raises ValueError and returns nothing.
C5_SanitizedName ==
    pc = "sanitize_done" =>
        IF ("[" \in Range(urlparse(url, <<>>).netloc))
           # ("]" \in Range(urlparse(url, <<>>).netloc))
        THEN sanitized = Raised
        ELSE /\ ~sanitized.raised
             /\ SafeName(sanitized.val)
             /\ (strip(host_and_path, {"/"}) = <<>>
                    => sanitized.val = extracted_page)

\* a call whose argument holds an invalid character and a backslash in a
\* non-empty host + path: both substitutions have acted
C5_Witness ==
    /\ pc = "sanitize_done"
    /\ ~sanitized.raised
    /\ {"<", "\\"} \subseteq Range(host_and_path)
    /\ Len(sanitized.val) >= 3
    /\ sanitized.val # extracted_page

---------------------------------------------------------------------------
(* Properties of extract_html_from_url and of main (under Spec).           *)

AllPresent(r) ==
    /\ r.html_file_path.some
    /\ r.html_content.some
    /\ r.base_url.some
    /\ r.dir_name.some

AllNone(r) ==
    /\ r.html_file_path = None
    /\ r.html_content = None
    /\ r.base_url = None
    /\ r.dir_name = None

\* C3: when extract_html_from_url has returned, either all four values are
\* present, the response had a success status, and its body has been written
\* to <directory>/index.html, or all four are None; a request error, a
\* non-success status, a directory that could not be created and a write that
\* did not complete each give the all-None outcome.
C3_TwoOutcomes ==
    pc = "main_branch" =>
        \/ /\ AllPresent(ret)
           /\ response.some /\ response.val.ok
           /\ ret.html_content.val = response.val.text
           /\ ret.dir_name.val \in dirs
           /\ ret.html_file_path.val
                 = ret.dir_name.val \o <<"/">> \o index_html
           /\ ret.html_file_path.val \in DOMAIN fs
           /\ fs[ret.html_file_path.val] = response.val.text
           /\ writes = <<ret.html_file_path.val>>
        \/ /\ AllNone(ret)
           /\ writes = <<>>
           /\ \/ response = None
              \/ ~response.val.ok
              \/ sanitize_url_for_directory(url).val \notin dirs
              \/ sanitize_url_for_directory(url).val \o <<"/">> \o index_html
                    \notin DOMAIN fs
              \/ fs[sanitize_url_for_directory(url).val \o <<"/">> \o index_html]
                    = <<>>

\* a fetch that succeeded and saved a page with an element in it, in a
\* directory the call created
C3_Witness ==
    /\ pc = "main_branch"
    /\ AllPresent(ret)
    /\ ret.html_content.val # <<>>
    /\ fs[ret.html_file_path.val] = ret.html_content.val
    /\ ret.dir_name.val = <<"h", "_", "d">>

\* C9 as stated: after a successful fetch the base URL returned is the final
\* URL the document was fetched from (response.url, after redirects).
C9_BaseUrlIsFinalUrl ==
    (pc = "main_branch" /\ AllPresent(ret)) => ret.base_url.val = response.val.url

\* the operations of main so far, in order
ops == [i \in 1..Len(events) |-> events[i].op]

IsPrefix(s, t) == Len(s) <= Len(t) /\ s = SubSeq(t, 1, Len(s))

\* C4: main's operations occur only in the order prompt, Fetcher, prompt,
\* Mirror; no request is made when the trimmed URL is empty; the Mirror runs
\* only after the Fetcher returned a result and the answer, trimmed and
\* lower-cased, was y or yes; after a Fetcher failure there is no second
\* prompt and no Mirror.
C4_Order ==
    /\ IsPrefix(ops, <<"prompt_url", "fetch", "prompt_styles", "mirror">>)
    /\ (Len(events) >= 1 /\ Range(events[1].arg) \subseteq whitespace)
          => (Len(events) = 1 /\ net = <<>>)
    /\ (net # <<>> => Len(events) >= 2)
    /\ (Len(net) >= 2 => Len(events) = 4)
    /\ (Len(events) >= 3 => AllPresent(ret))
    /\ (Len(events) = 4 =>
          events[3].arg \in { <<"y">>, <<"Y">>, <<"y", "e", "s">>,
                              <<" ", "Y", "E", "S", " ">> })
    /\ (pc = "exit" /\ ret # Pending /\ AllPresent(ret) /\ Len(events) = 3
          => events[3].arg \in {<<"n">>, <<"y", "e", "a", "h">>, <<>>})

\* the Mirror was started after the answer " YES "
C4_Witness ==
    /\ Len(events) = 4
    /\ events[4].op = "mirror"
    /\ events[3].arg = <<" ", "Y", "E", "S", " ">>
    /\ events[1].arg = <<" ", "h", "/", "p", " ">>

---------------------------------------------------------------------------
(* Properties of extract_linked_styles (under SpecMirror).                 *)

\* the positions, in the document the Mirror was given, of the elements that
\* are stylesheet-relation links
StylesheetPositions ==
    {p \in 1..Len(html_content) :
        html_content[p].tag = "link" /\ html_content[p].rel = "stylesheet"}

NumLinks == Cardinality(StylesheetPositions)

\* the position in the document of the n-th stylesheet link
PositionOf(n) ==
    CHOOSE p \in StylesheetPositions :
        Cardinality({q \in StylesheetPositions : q <= p}) = n

\* the href the n-th stylesheet link had when the pass began
OriginalHref(n) == html_content[PositionOf(n)].href

\* the URL the n-th link's href resolves to
ResolvedUrl(n) == urljoin(base_url, OriginalHref(n).val).val

\* the requests of a complete pass: one for each of the first n links that
\* has an href, in document order
RECURSIVE ExpectedRequests(_)
ExpectedRequests(n) ==
    IF n = 0 THEN <<>>
    ELSE ExpectedRequests(n - 1)
         \o (IF Truthy(OriginalHref(n)) THEN <<ResolvedUrl(n)>> ELSE <<>>)

index_path == dir_name \o <<"/">> \o index_html

\* the pass wrote index.html (the Fetcher's write is the first entry)
Rewritten ==
    /\ Len(writes) >= 2
    /\ writes[Len(writes)] = index_path

\* index.html holds a document in which every link that was saved points at
\* its local file
ReflectsSaved ==
    /\ Len(fs[index_path]) = Len(html_content)
    /\ \A n \in 1..Len(outcome) :
          outcome[n].kind = "saved" =>
              fs[index_path][PositionOf(n)].href = Some(outcome[n].css_filename)

FourOutcomes ==
    \A n \in 1..Len(outcome) :
        outcome[n].kind \in {"no_href", "request_error", "status_error",
                             "open_error", "write_error", "saved"}

SomeLinkFailed ==
    \E n \in 1..Len(outcome) :
        outcome[n].kind \in {"request_error", "status_error", "open_error",
                             "write_error"}

LocalFilename(n) == css_filename_for(ResolvedUrl(n), n)

\* C2 as stated: in the document written at the end of a pass, a stylesheet
\* link's href equals its local filename if and only if the link was
\* downloaded and its file written; every other link keeps its href.
C2_Original ==
    (pc = "exit" /\ mirror_ret = Some(TRUE) /\ NumLinks > 0) =>
        \A n \in 1..NumLinks :
            /\ (/\ Truthy(OriginalHref(n))
                /\ fs[index_path][PositionOf(n)].href = Some(LocalFilename(n)))
               <=> outcome[n].kind = "saved"
            /\ outcome[n].kind # "saved" =>
                  fs[index_path][PositionOf(n)].href = OriginalHref(n)

\* C2 as amended: in the document written at the end of a pass, the href of
\* every link that was downloaded and whose file was written is its local
\* filename, and every other element keeps the href it had (which, for a link
\* that failed, may itself equal the local filename).
C2_HrefRewrite ==
    (pc = "exit" /\ mirror_ret = Some(TRUE) /\ NumLinks > 0) =>
        /\ Len(fs[index_path]) = Len(html_content)
        /\ \A n \in 1..NumLinks :
              IF outcome[n].kind = "saved"
              THEN fs[index_path][PositionOf(n)].href = Some(LocalFilename(n))
              ELSE fs[index_path][PositionOf(n)].href = OriginalHref(n)
        /\ \A p \in (1..Len(html_content)) \ StylesheetPositions :
              fs[index_path][p] = html_content[p]

\* a pass with a link whose file write failed and a link that was saved under
\* a name that differs from its href
C2_Witness ==
    /\ pc = "exit"
    /\ mirror_ret = Some(TRUE)
    /\ Len(outcome) = 2
    /\ outcome[1].kind = "write_error"
    /\ outcome[2].kind = "saved"
    /\ fs[index_path][PositionOf(1)].href = OriginalHref(1)
    /\ fs[index_path][PositionOf(2)].href # OriginalHref(2)

\* the last segment of a path
LastSegment(path) == split(path, "/")[Len(split(path, "/"))]

\* C6: every saved link's local filename is the last path segment of its
\* resolved URL when that segment is not empty and ends with ".css", and
\* otherwise style_<n>.css with n the link's 1-based position among all the
\* stylesheet links of the document; the file of that name exists and the
\* link points at it.
C6_Filename ==
    \A n \in 1..Len(outcome) :
        outcome[n].kind = "saved" =>
            LET seg == LastSegment(urlparse(outcome[n].css_url, <<>>).path)
                name == IF seg # <<>> /\ endswith(seg, <<".", "c", "s", "s">>)
                        THEN seg
                        ELSE <<"s", "t", "y", "l", "e", "_">>
                             \o str(Cardinality({q \in StylesheetPositions :
                                                    q <= PositionOf(n)}))
                             \o <<".", "c", "s", "s">>
            IN  /\ outcome[n].css_url = ResolvedUrl(n)
                /\ soup[PositionOf(n)].href = Some(name)
                /\ (dir_name \o <<"/">> \o name) \in DOMAIN fs
                /\ name \in Range(downloaded_files)

\* the second link is saved under the synthesized name style_2.css after the
\* first link was skipped for its missing href
C6_Witness ==
    /\ Len(outcome) = 2
    /\ outcome[1].kind = "no_href"
    /\ outcome[2].kind = "saved"
    /\ soup[PositionOf(2)].href
          = Some(<<"s", "t", "y", "l", "e", "_", "2", ".", "c", "s", "s">>)

\* C7: with no stylesheet-relation link in the document the function returns
\* True, requests nothing, writes no file and leaves the document as it was.
C7_NoLinks ==
    (NumLinks = 0 /\ pc # "mirror_parse") =>
        /\ pc = "exit"
        /\ mirror_ret = Some(TRUE)
        /\ net = <<base_url>>
        /\ writes = <<index_path>>
        /\ DOMAIN fs = {index_path}
        /\ fs[index_path] = html_content
        /\ soup = html_content
        /\ outcome = <<>>

\* a document that has an element with an href, but no stylesheet link, went
\* through the function
C7_Witness ==
    /\ pc = "exit"
    /\ NumLinks = 0
    /\ Len(html_content) = 2
    /\ mirror_ret = Some(TRUE)

\* C8 as stated: every run rewrites index.html, also when nothing was
\* downloaded; only an exception that aborts the pass prevents it, and then
\* the function returns False.
C8_Original ==
    pc = "exit" => (Rewritten \/ mirror_ret = Some(FALSE))

\* C8 as amended: every run that finds at least one stylesheet link rewrites
\* index.html with the serialised document, also when nothing was downloaded or
\* some downloads failed, unless an exception aborts the pass, and then the
\* function returns False; a run that finds no stylesheet link returns True
\* and does not rewrite index.html.
C8_Rewrite ==
    pc = "exit" =>
        IF NumLinks = 0
        THEN mirror_ret = Some(TRUE) /\ ~Rewritten
        ELSE \/ /\ mirror_ret = Some(TRUE)
                /\ Rewritten
                /\ fs[index_path] = soup
                /\ Len(outcome) = NumLinks
             \/ /\ mirror_ret = Some(FALSE)
                /\ ~Rewritten

\* a run in which every download failed and index.html was rewritten all the
\* same
C8_Witness ==
    /\ pc = "exit"
    /\ Len(outcome) = 2
    /\ outcome[1].kind = "status_error"
    /\ outcome[2].kind = "request_error"
    /\ downloaded_files = <<>>
    /\ Rewritten
    /\ mirror_ret = Some(TRUE)

\* the links among the first n that were saved under the name f
SavedAs(f, n) ==
    {k \in 1..n : outcome[k].kind = "saved" /\ outcome[k].css_filename = f}

\* the entries of downloaded_files that are f
Occurrences(f) == {k \in 1..Len(downloaded_files) : downloaded_files[k] = f}

\* C10: when two links of a pass derive the same local filename and both are
\* saved, both hrefs are rewritten to that name, both are counted as
\* downloaded, and the file holds the text of the later one (as long as no
\* link after it opened the same file again).
C10_Collision ==
    \A i, j \in 1..Len(outcome) :
        (/\ i < j
         /\ outcome[i].kind = "saved"
         /\ outcome[j].kind = "saved"
         /\ outcome[i].css_filename = outcome[j].css_filename) =>
            LET f == outcome[j].css_filename
            IN  /\ soup[PositionOf(i)].href = Some(f)
                /\ soup[PositionOf(j)].href = Some(f)
                /\ Cardinality(Occurrences(f))
                      = Cardinality(SavedAs(f, Len(outcome)))
                /\ Cardinality(Occurrences(f)) >= 2
                /\ (\A k \in (j + 1)..Len(outcome) :
                        ~(outcome[k].css_filename = f
                          /\ outcome[k].kind \in {"saved", "write_error"}))
                      => fs[dir_name \o <<"/">> \o f] = outcome[j].text

\* two links with different URLs were saved under the same name with different
\* texts, and the file holds the second text
C10_Witness ==
    /\ pc = "exit"
    /\ Len(outcome) = 2
    /\ outcome[1].kind = "saved"
    /\ outcome[2].kind = "saved"
    /\ outcome[1].css_url # outcome[2].css_url
    /\ outcome[1].css_filename = outcome[2].css_filename
    /\ outcome[1].text # outcome[2].text
    /\ fs[dir_name \o <<"/">> \o outcome[2].css_filename] = outcome[2].text
    /\ downloaded_files = <<outcome[1].css_filename, outcome[2].css_filename>>

====
